---- MODULE Spec2Model ----
(***************************************************************************)
(* SPLPv1 message validator (veta1428/Firewall).                           *)
(*                                                                         *)
(* The repository holds two variants of validate_message:                  *)
(*   src/splpv1.c          - character classes as byte-range comparisons   *)
(*   src/unnamed/part_000  - character classes as 128-entry lookup tables  *)
(* Both keep the protocol phase in a file-scope static `state`.            *)
(*                                                                         *)
(* A message text is a TLA+ string; text_message[i] is its i-th byte       *)
(* (0-based), the byte at index Len(text) is the terminator 0, and the     *)
(* bytes after the terminator are whatever the buffer holds (mem).         *)
(***************************************************************************)
EXTENDS Integers, Sequences, FiniteSets, TLC

VARIABLES state, status, msg, prev, over, hs, cmd, vdir, conn, who, alone, solo

vars == <<state, status, msg, prev, over, hs, cmd, vdir, conn, who, alone, solo>>

(***************************************************************************)
(* Bounds of the message families.                                         *)
(***************************************************************************)
MaxVerTail == 3
MaxDataMid == 3
MaxB64Tok == 4
MaxB64Long == 8
MaxRunTail == 2
MaxSessions == 2

(***************************************************************************)
(* enum State, the verdicts and the directions.                            *)
(***************************************************************************)
INIT == "INIT"
CONNECTING == "CONNECTING"
CONNECTED == "CONNECTED"
WAITING_VER == "WAITING_VER"
WAITING_DATA == "WAITING_DATA"
WAITING_B64_DATA == "WAITING_B64_DATA"
DISCONNECTING == "DISCONNECTING"

State == {INIT, CONNECTING, CONNECTED, WAITING_VER, WAITING_DATA, WAITING_B64_DATA, DISCONNECTING}

MESSAGE_VALID == "MESSAGE_VALID"
MESSAGE_INVALID == "MESSAGE_INVALID"

A_TO_B == "A_TO_B"
B_TO_A == "B_TO_A"

Direction == {A_TO_B, B_TO_A}

(***************************************************************************)
(* The wire literals.                                                      *)
(***************************************************************************)
CONNECT == "CONNECT"
CONNECT_OK == "CONNECT_OK"
GET_VER == "GET_VER"
GET_DATA == "GET_DATA"
GET_FILE == "GET_FILE"
GET_COMMAND == "GET_COMMAND"
GET_B64 == "GET_B64"
DISCONNECT == "DISCONNECT"
VERSION == "VERSION"
B64 == "B64:"
DISCONNECT_OK == "DISCONNECT_OK"

(***************************************************************************)
(* Bytes of a text.  ASCII32 lists the characters with codes 32..95 and    *)
(* ASCII97 those with codes 97..126, each in code order.                   *)
(***************************************************************************)
ASCII32 == " !\"#$%&'()*+,-./0123456789:;<=>?@ABCDEFGHIJKLMNOPQRSTUVWXYZ[\\]^_"

ASCII97 == "abcdefghijklmnopqrstuvwxyz{|}~"

Chars(s) == {SubSeq(s, k, k) : k \in 1..Len(s)}

Pos(s, c) == CHOOSE k \in 1..Len(s) : SubSeq(s, k, k) = c

Ord == [c \in Chars(ASCII32) \cup Chars(ASCII97) |->
          IF c \in Chars(ASCII32) THEN 31 + Pos(ASCII32, c) ELSE 96 + Pos(ASCII97, c)]

\* text_message[i] for 0 <= i <= strlen(text_message)
At(text, i) == IF i < Len(text) THEN Ord[SubSeq(text, i + 1, i + 1)] ELSE 0

\* text_message[i] for any i the code reads: past the terminator the buffer
\* holds the bytes mem[1], mem[2], ...
Byte(text, mem, i) == IF i <= Len(text) THEN At(text, i) ELSE mem[i - Len(text)]

\* text_message + i, for 0 <= i <= strlen(text_message)
From(text, i) == SubSeq(text, i + 1, Len(text))

Prefix(text, n) == SubSeq(text, 1, IF n < Len(text) THEN n ELSE Len(text))

RECURSIVE FirstDiff(_, _, _)
FirstDiff(s, t, i) ==
    IF At(s, i) # At(t, i) THEN At(s, i) - At(t, i)
    ELSE IF At(s, i) = 0 THEN 0
    ELSE FirstDiff(s, t, i + 1)

\* <string.h>: zero iff the texts are equal, else the difference of the first
\* pair of bytes that differ
strcmp(s, t) == IF s = t THEN 0 ELSE FirstDiff(s, t, 0)

strncmp(s, t, n) == strcmp(Prefix(s, n), Prefix(t, n))

\* "return V" after "state = S" (or with the state left as it was)
Ret(s, v) == [state |-> s, status |-> v, over |-> FALSE]

(***************************************************************************)
(* src/splpv1.c                                                            *)
(***************************************************************************)
\* mutant: CONNECT matched as a prefix only
case_INIT_prefix(m) ==
    IF strncmp(m.text_message, CONNECT, 7) # 0 THEN Ret(INIT, MESSAGE_INVALID)
    ELSE IF m.direction # A_TO_B THEN Ret(INIT, MESSAGE_INVALID)
    ELSE Ret(CONNECTING, MESSAGE_VALID)

case_INIT(m) ==
    IF strcmp(m.text_message, CONNECT) # 0 THEN Ret(INIT, MESSAGE_INVALID)
    ELSE IF m.direction # A_TO_B THEN Ret(INIT, MESSAGE_INVALID)
    ELSE Ret(CONNECTING, MESSAGE_VALID)

\* mutant: the assignment state = CONNECTED left out
case_CONNECTING_stay(m) ==
    IF strcmp(m.text_message, CONNECT_OK) # 0 THEN Ret(INIT, MESSAGE_INVALID)
    ELSE IF m.direction # B_TO_A THEN Ret(INIT, MESSAGE_INVALID)
    ELSE Ret(CONNECTING, MESSAGE_VALID)

case_CONNECTING(m) ==
    IF strcmp(m.text_message, CONNECT_OK) # 0 THEN Ret(INIT, MESSAGE_INVALID)
    ELSE IF m.direction # B_TO_A THEN Ret(INIT, MESSAGE_INVALID)
    ELSE Ret(CONNECTED, MESSAGE_VALID)

case_CONNECTED(m) ==
    IF m.direction # A_TO_B THEN Ret(INIT, MESSAGE_INVALID)
    ELSE IF strcmp(m.text_message, GET_VER) = 0 THEN Ret(WAITING_VER, MESSAGE_VALID)
    ELSE IF \/ strcmp(m.text_message, GET_DATA) = 0
            \/ strcmp(m.text_message, GET_FILE) = 0
            \/ strcmp(m.text_message, GET_COMMAND) = 0
         THEN Ret(WAITING_DATA, MESSAGE_VALID)
    ELSE IF strcmp(m.text_message, GET_B64) = 0 THEN Ret(WAITING_B64_DATA, MESSAGE_VALID)
    ELSE IF strcmp(m.text_message, DISCONNECT) = 0 THEN Ret(DISCONNECTING, MESSAGE_VALID)
    ELSE Ret(CONNECTED, MESSAGE_INVALID)

\* mutant: the lower limit of the digit range off by one
ver_bad_gt(c) == ~(c > 48 /\ c < 58) \/ c = 32

\* the body of the version loop: TRUE when the byte ends the scan as invalid
ver_bad(c) == ~(c >= 48 /\ c < 58) \/ c = 32

RECURSIVE ver_scan(_, _)
ver_scan(text, i) ==
    IF At(text, i) = 0 THEN TRUE
    ELSE IF ver_bad(At(text, i)) THEN FALSE
    ELSE ver_scan(text, i + 1)

case_WAITING_VER(m) ==
    IF strncmp(m.text_message, VERSION, 7) = 0
    THEN IF At(m.text_message, 7) # 32 THEN Ret(INIT, MESSAGE_INVALID)
         ELSE IF ~ver_scan(m.text_message, 8) THEN Ret(INIT, MESSAGE_INVALID)
         ELSE Ret(CONNECTED, MESSAGE_VALID)
    ELSE Ret(INIT, MESSAGE_INVALID)

\* the byte ranges a data token may hold
data_char(c) == (c >= 97 /\ c <= 122) \/ c = 46 \/ (c >= 48 /\ c <= 59)

\* the token loop: the index it stops at, or -1 when a byte is rejected
RECURSIVE data_scan(_, _)
data_scan(text, i) ==
    IF At(text, i) # 32 /\ At(text, i) # 0
    THEN IF ~data_char(At(text, i)) THEN -1 ELSE data_scan(text, i + 1)
    ELSE i

\* mutant: the echoed command compared over its first n bytes only
data_reply_strncmp(text, CMD, n) ==
    IF At(text, n) # 32 THEN Ret(INIT, MESSAGE_INVALID)
    ELSE LET i == data_scan(text, n + 1) IN
         IF i = -1 THEN Ret(INIT, MESSAGE_INVALID)
         ELSE IF At(text, i) = 0 \/ strncmp(From(text, i + 1), CMD, n) # 0
              THEN Ret(INIT, MESSAGE_INVALID)
         ELSE Ret(CONNECTED, MESSAGE_VALID)

\* one of the three reply blocks: CMD is the literal, n its length
data_reply(text, CMD, n) ==
    IF At(text, n) # 32 THEN Ret(INIT, MESSAGE_INVALID)
    ELSE LET i == data_scan(text, n + 1) IN
         IF i = -1 THEN Ret(INIT, MESSAGE_INVALID)
         ELSE IF At(text, i) = 0 \/ strcmp(From(text, i + 1), CMD) # 0
              THEN Ret(INIT, MESSAGE_INVALID)
         ELSE Ret(CONNECTED, MESSAGE_VALID)

case_WAITING_DATA(m) ==
    IF m.direction # B_TO_A THEN Ret(INIT, MESSAGE_INVALID)
    ELSE IF strncmp(m.text_message, GET_DATA, 8) = 0 THEN data_reply(m.text_message, GET_DATA, 8)
    ELSE IF strncmp(m.text_message, GET_FILE, 8) = 0 THEN data_reply(m.text_message, GET_FILE, 8)
    ELSE IF strncmp(m.text_message, GET_COMMAND, 11) = 0 THEN data_reply(m.text_message, GET_COMMAND, 11)
    \* break, then the return at the end of the function
    ELSE Ret(WAITING_DATA, MESSAGE_VALID)

b64_char(c) ==
    \/ (c >= 97 /\ c <= 122)
    \/ (c >= 65 /\ c <= 90)
    \/ (c >= 48 /\ c <= 57)
    \/ c = 43
    \/ c = 47

b64_char_eq(c) ==
    \/ (c >= 97 /\ c <= 122)
    \/ (c >= 65 /\ c <= 90)
    \/ (c >= 48 /\ c <= 57)
    \/ c = 61
    \/ c = 43
    \/ c = 47

\* the base64 loop: the index it stops at, or -1 when a byte is rejected
RECURSIVE b64_scan(_, _, _)
b64_scan(text, mem, i) ==
    IF Byte(text, mem, i + 2) # 0
    THEN IF ~b64_char(Byte(text, mem, i)) THEN -1 ELSE b64_scan(text, mem, i + 1)
    ELSE i

\* mutant: the second = of the padding not tested
b64_tail_one(text, mem, i) ==
    IF ~b64_char(Byte(text, mem, i))
    THEN Byte(text, mem, i) = 61
    ELSE b64_char_eq(Byte(text, mem, i + 1))

b64_tail(text, mem, i) ==
    IF ~b64_char(Byte(text, mem, i))
    THEN Byte(text, mem, i) = 61 /\ Byte(text, mem, i + 1) = 61
    ELSE b64_char_eq(Byte(text, mem, i + 1))

\* the first loop test reads text_message[7]: past the terminator when the
\* text is shorter than 7 bytes
case_WAITING_B64_DATA(m, mem) ==
    IF m.direction # B_TO_A THEN Ret(INIT, MESSAGE_INVALID)
    ELSE IF strncmp(m.text_message, B64, 4) # 0 THEN Ret(INIT, MESSAGE_INVALID)
    ELSE IF At(m.text_message, 4) # 32 THEN Ret(INIT, MESSAGE_INVALID)
    ELSE LET i == b64_scan(m.text_message, mem, 5)
             r == IF i = -1 THEN Ret(INIT, MESSAGE_INVALID)
                  ELSE IF ~b64_tail(m.text_message, mem, i) THEN Ret(INIT, MESSAGE_INVALID)
                  ELSE IF (i - 3) % 4 # 0 THEN Ret(INIT, MESSAGE_INVALID)
                  ELSE Ret(CONNECTED, MESSAGE_VALID)
         IN  [r EXCEPT !.over = (5 + 2 > Len(m.text_message))]

\* mutant: the direction test left out
case_DISCONNECTING_anydir(m) ==
    IF strcmp(m.text_message, DISCONNECT_OK) # 0 THEN Ret(INIT, MESSAGE_INVALID)
    ELSE Ret(INIT, MESSAGE_VALID)

case_DISCONNECTING(m) ==
    IF strcmp(m.text_message, DISCONNECT_OK) # 0 THEN Ret(INIT, MESSAGE_INVALID)
    ELSE IF m.direction # B_TO_A THEN Ret(INIT, MESSAGE_INVALID)
    ELSE Ret(INIT, MESSAGE_VALID)

validate_message(st, m, mem) ==
    CASE st = INIT -> case_INIT(m)
      [] st = CONNECTING -> case_CONNECTING(m)
      [] st = CONNECTED -> case_CONNECTED(m)
      [] st = WAITING_VER -> case_WAITING_VER(m)
      [] st = WAITING_DATA -> case_WAITING_DATA(m)
      [] st = WAITING_B64_DATA -> case_WAITING_B64_DATA(m, mem)
      [] st = DISCONNECTING -> case_DISCONNECTING(m)

(***************************************************************************)
(* src/unnamed/part_000: the same function with lookup tables.  A table is *)
(* the set of the indexes whose entry is 1.                                *)
(***************************************************************************)
table == {46} \cup (48..57) \cup (97..122)

tableBase64 == {43} \cup (47..57) \cup (65..90) \cup (97..122)

tableBase64WithEquals == {43} \cup (47..57) \cup {61} \cup (65..90) \cup (97..122)

case_INIT_tab(m) ==
    IF strcmp(m.text_message, CONNECT) # 0 THEN Ret(INIT, MESSAGE_INVALID)
    ELSE IF m.direction # A_TO_B THEN Ret(INIT, MESSAGE_INVALID)
    ELSE Ret(CONNECTING, MESSAGE_VALID)

\* mutant: the text of the reply to CONNECT not compared
case_CONNECTING_tab_any(m) ==
    IF m.direction # B_TO_A THEN Ret(INIT, MESSAGE_INVALID)
    ELSE Ret(CONNECTED, MESSAGE_VALID)

case_CONNECTING_tab(m) ==
    IF strcmp(m.text_message, CONNECT_OK) # 0 THEN Ret(INIT, MESSAGE_INVALID)
    ELSE IF m.direction # B_TO_A THEN Ret(INIT, MESSAGE_INVALID)
    ELSE Ret(CONNECTED, MESSAGE_VALID)

\* mutant: DISCONNECT matched as a prefix only
case_CONNECTED_tab_prefix(m) ==
    IF m.direction # A_TO_B THEN Ret(INIT, MESSAGE_INVALID)
    ELSE IF \/ strcmp(m.text_message, GET_DATA) = 0
            \/ strcmp(m.text_message, GET_FILE) = 0
            \/ strcmp(m.text_message, GET_COMMAND) = 0
         THEN Ret(WAITING_DATA, MESSAGE_VALID)
    ELSE IF strncmp(m.text_message, DISCONNECT, 10) = 0 THEN Ret(DISCONNECTING, MESSAGE_VALID)
    ELSE IF strcmp(m.text_message, GET_B64) = 0 THEN Ret(WAITING_B64_DATA, MESSAGE_VALID)
    ELSE IF strcmp(m.text_message, GET_VER) = 0 THEN Ret(WAITING_VER, MESSAGE_VALID)
    ELSE Ret(CONNECTED, MESSAGE_INVALID)

case_CONNECTED_tab(m) ==
    IF m.direction # A_TO_B THEN Ret(INIT, MESSAGE_INVALID)
    ELSE IF \/ strcmp(m.text_message, GET_DATA) = 0
            \/ strcmp(m.text_message, GET_FILE) = 0
            \/ strcmp(m.text_message, GET_COMMAND) = 0
         THEN Ret(WAITING_DATA, MESSAGE_VALID)
    ELSE IF strcmp(m.text_message, DISCONNECT) = 0 THEN Ret(DISCONNECTING, MESSAGE_VALID)
    ELSE IF strcmp(m.text_message, GET_B64) = 0 THEN Ret(WAITING_B64_DATA, MESSAGE_VALID)
    ELSE IF strcmp(m.text_message, GET_VER) = 0 THEN Ret(WAITING_VER, MESSAGE_VALID)
    ELSE Ret(CONNECTED, MESSAGE_INVALID)

case_WAITING_VER_tab(m) ==
    IF m.direction # B_TO_A THEN Ret(INIT, MESSAGE_INVALID)
    ELSE IF strncmp(m.text_message, VERSION, 7) = 0
    THEN IF At(m.text_message, 7) # 32 THEN Ret(INIT, MESSAGE_INVALID)
         ELSE IF ~ver_scan(m.text_message, 8) THEN Ret(INIT, MESSAGE_INVALID)
         ELSE Ret(CONNECTED, MESSAGE_VALID)
    ELSE Ret(INIT, MESSAGE_INVALID)

\* the token loop over `pointer`: the index it stops at, or -1
RECURSIVE data_scan_tab(_, _)
data_scan_tab(text, i) ==
    IF At(text, i) # 32 /\ At(text, i) # 0
    THEN IF At(text, i) \notin table THEN -1 ELSE data_scan_tab(text, i + 1)
    ELSE i

data_reply_tab(text, CMD, n) ==
    IF At(text, n) # 32 THEN Ret(INIT, MESSAGE_INVALID)
    ELSE LET pointer == data_scan_tab(text, n + 1) IN
         IF pointer = -1 THEN Ret(INIT, MESSAGE_INVALID)
         ELSE IF At(text, pointer) = 0 \/ strcmp(From(text, pointer + 1), CMD) # 0
              THEN Ret(INIT, MESSAGE_INVALID)
         ELSE Ret(CONNECTED, MESSAGE_VALID)

case_WAITING_DATA_tab(m) ==
    IF m.direction # B_TO_A THEN Ret(INIT, MESSAGE_INVALID)
    ELSE IF strncmp(m.text_message, GET_DATA, 8) = 0 THEN data_reply_tab(m.text_message, GET_DATA, 8)
    ELSE IF strncmp(m.text_message, GET_FILE, 8) = 0 THEN data_reply_tab(m.text_message, GET_FILE, 8)
    ELSE IF strncmp(m.text_message, GET_COMMAND, 11) = 0 THEN data_reply_tab(m.text_message, GET_COMMAND, 11)
    \* break, then the return at the end of the function
    ELSE Ret(WAITING_DATA, MESSAGE_VALID)

RECURSIVE b64_scan_tab(_, _, _)
b64_scan_tab(text, mem, pointer) ==
    IF Byte(text, mem, pointer + 2) # 0
    THEN IF Byte(text, mem, pointer) \notin tableBase64 THEN -1
         ELSE b64_scan_tab(text, mem, pointer + 1)
    ELSE pointer

b64_tail_tab(text, mem, pointer) ==
    IF Byte(text, mem, pointer) \notin tableBase64
    THEN Byte(text, mem, pointer) = 61 /\ Byte(text, mem, pointer + 1) = 61
    ELSE Byte(text, mem, pointer + 1) \in tableBase64WithEquals

\* mutant: the length test off by one
case_WAITING_B64_DATA_tab_len(m, mem) ==
    IF m.direction # B_TO_A THEN Ret(INIT, MESSAGE_INVALID)
    ELSE IF strncmp(m.text_message, B64, 4) # 0 THEN Ret(INIT, MESSAGE_INVALID)
    ELSE IF At(m.text_message, 4) # 32 THEN Ret(INIT, MESSAGE_INVALID)
    ELSE LET initialPointer == 5
             pointer == b64_scan_tab(m.text_message, mem, 5)
             r == IF pointer = -1 THEN Ret(INIT, MESSAGE_INVALID)
                  ELSE IF ~b64_tail_tab(m.text_message, mem, pointer) THEN Ret(INIT, MESSAGE_INVALID)
                  ELSE IF (pointer + 1 - initialPointer) % 4 # 0 THEN Ret(INIT, MESSAGE_INVALID)
                  ELSE Ret(CONNECTED, MESSAGE_VALID)
         IN  [r EXCEPT !.over = (5 + 2 > Len(m.text_message))]

case_WAITING_B64_DATA_tab(m, mem) ==
    IF m.direction # B_TO_A THEN Ret(INIT, MESSAGE_INVALID)
    ELSE IF strncmp(m.text_message, B64, 4) # 0 THEN Ret(INIT, MESSAGE_INVALID)
    ELSE IF At(m.text_message, 4) # 32 THEN Ret(INIT, MESSAGE_INVALID)
    ELSE LET initialPointer == 5
             pointer == b64_scan_tab(m.text_message, mem, 5)
             r == IF pointer = -1 THEN Ret(INIT, MESSAGE_INVALID)
                  ELSE IF ~b64_tail_tab(m.text_message, mem, pointer) THEN Ret(INIT, MESSAGE_INVALID)
                  ELSE IF (pointer + 2 - initialPointer) % 4 # 0 THEN Ret(INIT, MESSAGE_INVALID)
                  ELSE Ret(CONNECTED, MESSAGE_VALID)
         IN  [r EXCEPT !.over = (5 + 2 > Len(m.text_message))]

case_DISCONNECTING_tab(m) ==
    IF strcmp(m.text_message, DISCONNECT_OK) # 0 THEN Ret(INIT, MESSAGE_INVALID)
    ELSE IF m.direction # B_TO_A THEN Ret(INIT, MESSAGE_INVALID)
    ELSE Ret(INIT, MESSAGE_VALID)

validate_message_tab(st, m, mem) ==
    CASE st = INIT -> case_INIT_tab(m)
      [] st = CONNECTING -> case_CONNECTING_tab(m)
      [] st = CONNECTED -> case_CONNECTED_tab(m)
      [] st = WAITING_VER -> case_WAITING_VER_tab(m)
      [] st = WAITING_DATA -> case_WAITING_DATA_tab(m)
      [] st = WAITING_B64_DATA -> case_WAITING_B64_DATA_tab(m, mem)
      [] st = DISCONNECTING -> case_DISCONNECTING_tab(m)

(***************************************************************************)
(* Messages.                                                               *)
(***************************************************************************)
Literals == {CONNECT, CONNECT_OK, GET_VER, GET_DATA, GET_FILE, GET_COMMAND,
             GET_B64, DISCONNECT, VERSION, B64, DISCONNECT_OK}

Commands == {GET_DATA, GET_FILE, GET_COMMAND}

\* every string over the characters S of length at most n
RECURSIVE Strs(_, _)
Strs(S, n) ==
    IF n = 0 THEN {""}
    ELSE LET P == Strs(S, n - 1) IN P \cup {p \o c : p \in P, c \in S}

Msgs(T) == [direction : Direction, text_message : T]

\* the texts of a session run: every literal, short version replies, and
\* replies of each phase, well-formed and not
RunTexts ==
    Literals
    \cup {"", "HELLO", "CONNECTX", "CONNECT_OK "}
    \cup {VERSION \o t : t \in Strs({" ", "3"}, MaxRunTail)}
    \cup {"VERSION 0", "VERSION 123", "VERSION -1", "VERSION 1 2"}
    \cup {c \o " a.1 " \o d : c \in Commands, d \in Commands}
    \cup {c \o "  " \o c : c \in Commands}
    \cup {"GET_DATA a:b GET_DATA", "GET_DATA a.1 GET_DATAX", "GET_DATA a.1", "GET_DATA A GET_DATA"}
    \cup {"GET_FILE a;b GET_FILE"}
    \cup {"B64: ", "B64: Q", "B64: QQ=", "B64: QQ==", "B64: QQQ=", "B64: QQQQ",
          "B64: Q=Q=", "B64: SGVsbG8="}

\* the texts of a single call: the same, with longer tails over wider alphabets
CallTexts ==
    RunTexts
    \cup {l \o t : l \in Literals, t \in {"X", "_", "_OK"}}
    \cup {SubSeq(l, 1, Len(l) - 1) : l \in Literals}
    \cup {VERSION \o t : t \in Strs({" ", "0", "9", "-", "a"}, MaxVerTail)}
    \cup {c \o t \o d \o x : c \in Commands,
                             t \in Strs({" ", "a", ":", "A"}, MaxDataMid),
                             d \in Commands \cup {""},
                             x \in {"", "X", " "}}
    \cup {B64 \o " " \o t : t \in Strs({"Q", "=", "-"}, MaxB64Tok)}
    \cup {B64 \o " " \o t : t \in Strs({"a", "9", "+", "/"}, MaxB64Tok)}
    \cup {B64 \o " " \o t : t \in Strs({"Q", "="}, MaxB64Long)}
    \cup {B64 \o t : t \in {"QQQQ", "  QQQQ", ":QQQQ"}}

RunMessages == Msgs(RunTexts)

CallMessages == Msgs(CallTexts)

\* the two bytes that follow the terminator in the message buffer
Beyond == [1..2 -> {0, 81}]

\* the sessions whose messages reach validate_message
Session == 1..MaxSessions

\* the messages of a session that connects and disconnects
ShareMessages ==
    { [direction |-> A_TO_B, text_message |-> CONNECT],
      [direction |-> B_TO_A, text_message |-> CONNECT_OK],
      [direction |-> A_TO_B, text_message |-> DISCONNECT],
      [direction |-> B_TO_A, text_message |-> DISCONNECT_OK] }

\* the bytes beyond the terminator when no text is read beyond it
Zeros == [i \in 1..2 |-> 0]

(***************************************************************************)
(* The two variants run side by side on the same messages, each with its   *)
(* own static `state`.                                                     *)
(***************************************************************************)
Variant == {"splpv1", "part_000"}

NONE == "NONE"

NoMessage == [direction |-> NONE, text_message |-> ""]

Run(v, st, m, mem) ==
    IF v = "splpv1" THEN validate_message(st, m, mem) ELSE validate_message_tab(st, m, mem)

\* the opening exchange of a session, in the order it is sent
Handshake ==
    << [direction |-> A_TO_B, text_message |-> CONNECT],
       [direction |-> B_TO_A, text_message |-> CONNECT_OK],
       [direction |-> A_TO_B, text_message |-> GET_VER],
       [direction |-> B_TO_A, text_message |-> "VERSION 3"] >>

\* how many of the latest messages are the leading messages of Handshake,
\* the first of them validated in INIT
Progress(h, st, m) ==
    IF h \in 1..3 /\ m = Handshake[h + 1] THEN h + 1
    ELSE IF st = INIT /\ m = Handshake[1] THEN 1
    ELSE 0

\* the request a reply in WAITING_DATA answers: the text that moved the phase
\* from CONNECTED to WAITING_DATA, kept while the call starts in WAITING_DATA
Pending(c, st, r, m) ==
    IF st = CONNECTED /\ r.state = WAITING_DATA THEN m.text_message
    ELSE IF st = WAITING_DATA THEN c
    ELSE NONE

\* the direction of the latest valid message since the phase last was INIT
LastValid(d, r, m) ==
    IF r.state = INIT THEN NONE
    ELSE IF r.status = MESSAGE_VALID THEN m.direction
    ELSE d

\* how much of the exchange CONNECT (A->B), CONNECT_OK (B->A) was returned
\* valid since the phase last was INIT: 0 nothing, 1 CONNECT, 2 both
Established(e, r, m) ==
    IF r.state = INIT THEN 0
    ELSE IF r.status = MESSAGE_VALID /\ m = Handshake[1] THEN 1
    ELSE IF r.status = MESSAGE_VALID /\ m = Handshake[2] /\ e = 1 THEN 2
    ELSE e

\* one call of validate_message(&m) in each variant
Call(m, mem) ==
    LET r == [v \in Variant |-> Run(v, state[v], m, mem)] IN
    /\ state' = [v \in Variant |-> r[v].state]
    /\ status' = [v \in Variant |-> r[v].status]
    /\ over' = [v \in Variant |-> r[v].over]
    /\ prev' = state
    /\ msg' = m
    /\ hs' = [v \in Variant |-> Progress(hs[v], state[v], m)]
    /\ cmd' = [v \in Variant |-> Pending(cmd[v], state[v], r[v], m)]
    /\ vdir' = [v \in Variant |-> LastValid(vdir[v], r[v], m)]
    /\ conn' = [v \in Variant |-> Established(conn[v], r[v], m)]

(***************************************************************************)
(* Spec: a run of messages validated one after the other, from INIT.       *)
(***************************************************************************)
Init ==
    /\ state = [v \in Variant |-> INIT]
    /\ status = [v \in Variant |-> NONE]
    /\ over = [v \in Variant |-> FALSE]
    /\ prev = [v \in Variant |-> INIT]
    /\ msg = NoMessage
    /\ hs = [v \in Variant |-> 0]
    /\ cmd = [v \in Variant |-> NONE]
    /\ vdir = [v \in Variant |-> NONE]
    /\ conn = [v \in Variant |-> 0]
    /\ who = 0
    /\ alone = [v \in Variant |-> [s \in Session |-> INIT]]
    /\ solo = [v \in Variant |-> NONE]

Validate ==
    /\ \E m \in RunMessages, mem \in Beyond : Call(m, mem)
    /\ UNCHANGED <<who, alone, solo>>

Next == Validate

Spec == Init /\ [][Next]_vars

(***************************************************************************)
(* SpecCall: one call of validate_message, on any message of CallMessages, *)
(* in any phase.                                                           *)
(***************************************************************************)
InitCall ==
    /\ \E p \in State : state = [v \in Variant |-> p]
    /\ status = [v \in Variant |-> NONE]
    /\ over = [v \in Variant |-> FALSE]
    /\ prev = state
    /\ msg \in CallMessages
    /\ hs = [v \in Variant |-> 0]
    /\ \E c \in (IF state["splpv1"] = WAITING_DATA THEN Commands ELSE {NONE}) :
           cmd = [v \in Variant |-> c]
    /\ vdir = [v \in Variant |-> NONE]
    /\ conn = [v \in Variant |-> IF state[v] = INIT THEN 0
                                   ELSE IF state[v] = CONNECTING THEN 1 ELSE 2]
    /\ who = 0
    /\ alone = [v \in Variant |-> [s \in Session |-> INIT]]
    /\ solo = [v \in Variant |-> NONE]

ValidateCall ==
    /\ \A v \in Variant : status[v] = NONE
    /\ \E mem \in Beyond : Call(msg, mem)
    /\ UNCHANGED <<who, alone, solo>>

NextCall == ValidateCall

SpecCall == InitCall /\ [][NextCall]_vars

(***************************************************************************)
(* SpecShared: the messages of several sessions, interleaved in any order, *)
(* validated by the one validate_message and its one static state.  For    *)
(* each session `alone` is the phase, and `solo` the verdict, the same     *)
(* function gives when it validates the messages of that session only.     *)
(***************************************************************************)
ValidateShared ==
    \E s \in Session, m \in ShareMessages :
        LET a == [v \in Variant |-> Run(v, alone[v][s], m, Zeros)] IN
        /\ Call(m, Zeros)
        /\ who' = s
        /\ alone' = [v \in Variant |-> [alone[v] EXCEPT ![s] = a[v].state]]
        /\ solo' = [v \in Variant |-> a[v].status]

NextShared == ValidateShared

SpecShared == Init /\ [][NextShared]_vars

TypeOK ==
    /\ state \in [Variant -> State]
    /\ status \in [Variant -> {NONE, MESSAGE_VALID, MESSAGE_INVALID}]
    /\ over \in [Variant -> BOOLEAN]
    /\ prev \in [Variant -> State]
    /\ hs \in [Variant -> 0..4]
    /\ cmd \in [Variant -> Commands \cup {NONE}]
    /\ vdir \in [Variant -> Direction \cup {NONE}]
    /\ conn \in [Variant -> 0..2]
    /\ who \in Session \cup {0}
    /\ alone \in [Variant -> [Session -> State]]
    /\ solo \in [Variant -> {NONE, MESSAGE_VALID, MESSAGE_INVALID}]

(***************************************************************************)
(* Properties.  In every formula `prev` is the phase a call started in,    *)
(* `msg` the message it was given, `status` what it returned (NONE before  *)
(* the first return) and `state` the phase it left.                        *)
(***************************************************************************)
Returned(v) == status[v] # NONE

Valid(v, p) == status[v] = MESSAGE_VALID /\ state[v] = p

Invalid(v, p) == status[v] = MESSAGE_INVALID /\ state[v] = p

Is(d, t) == msg.direction = d /\ msg.text_message = t

\* every character of the string t is one of cs
AllIn(t, cs) == \A k \in 1..Len(t) : SubSeq(t, k, k) \in cs

\* t starts with the string p
StartsWith(t, p) == Len(t) >= Len(p) /\ SubSeq(t, 1, Len(p)) = p

\* C1: whenever validate_message returns MESSAGE_INVALID the phase after the
\* call is INIT, in every phase and for every message; so the first message
\* returned valid after an invalid one is CONNECT sent A->B.
C1_InvalidResetsToInit ==
    \A v \in Variant : status[v] = MESSAGE_INVALID => state[v] = INIT

\* C2: in WAITING_DATA a B->A message that starts with none of GET_DATA,
\* GET_FILE, GET_COMMAND is invalid and resets the phase to INIT, and no call
\* returns MESSAGE_VALID leaving the phase at WAITING_DATA.
C2_UnknownReplyRejected ==
    \A v \in Variant :
        /\ ( /\ Returned(v)
             /\ prev[v] = WAITING_DATA
             /\ msg.direction = B_TO_A
             /\ \A c \in Commands : ~StartsWith(msg.text_message, c) )
           => Invalid(v, INIT)
        /\ (status[v] = MESSAGE_VALID /\ prev[v] = WAITING_DATA) => state[v] # WAITING_DATA

\* C3: a call in INIT returns MESSAGE_VALID and moves to CONNECTING exactly
\* when the message is CONNECT sent A->B; any other message is invalid and
\* leaves the phase at INIT, call after call.
C3_InitAcceptsOnlyConnect ==
    \A v \in Variant :
        (Returned(v) /\ prev[v] = INIT) =>
            IF Is(A_TO_B, CONNECT) THEN Valid(v, CONNECTING) ELSE Invalid(v, INIT)

\* C3 witness: CONNECT sent B->A was rejected in INIT
C3_Witness ==
    \A v \in Variant : prev[v] = INIT /\ Is(B_TO_A, CONNECT) /\ Invalid(v, INIT)

\* C4: from INIT the messages CONNECT (A->B), CONNECT_OK (B->A), GET_VER
\* (A->B), VERSION 3 (B->A) are each returned valid, and leave the phase at
\* CONNECTING, CONNECTED, WAITING_VER and CONNECTED in turn.
C4_HandshakeRoundTrip ==
    \A v \in Variant :
        /\ hs[v] = 1 => Valid(v, CONNECTING)
        /\ hs[v] = 2 => Valid(v, CONNECTED)
        /\ hs[v] = 3 => Valid(v, WAITING_VER)
        /\ hs[v] = 4 => Valid(v, CONNECTED)

\* C4 witness: the fourth message of the exchange has been validated
C4_Witness ==
    \A v \in Variant : hs[v] = 4 /\ prev[v] = WAITING_VER /\ Is(B_TO_A, "VERSION 3")

\* C5: in CONNECTED an A->B message is valid and moves to WAITING_VER for
\* GET_VER, to WAITING_DATA for GET_DATA, GET_FILE and GET_COMMAND, to
\* WAITING_B64_DATA for GET_B64 and to DISCONNECTING for DISCONNECT; no other
\* message is returned valid in CONNECTED.
C5_ConnectedTable ==
    \A v \in Variant :
        (Returned(v) /\ prev[v] = CONNECTED) =>
            /\ Is(A_TO_B, GET_VER) => Valid(v, WAITING_VER)
            /\ (msg.direction = A_TO_B /\ msg.text_message \in Commands) => Valid(v, WAITING_DATA)
            /\ Is(A_TO_B, GET_B64) => Valid(v, WAITING_B64_DATA)
            /\ Is(A_TO_B, DISCONNECT) => Valid(v, DISCONNECTING)
            /\ status[v] = MESSAGE_VALID =>
                   /\ msg.direction = A_TO_B
                   /\ msg.text_message \in Commands \cup {GET_VER, GET_B64, DISCONNECT}

\* C5 witness: GET_COMMAND sent A->B was accepted in CONNECTED
C5_Witness ==
    \A v \in Variant : prev[v] = CONNECTED /\ Is(A_TO_B, GET_COMMAND) /\ Valid(v, WAITING_DATA)

\* C6: DISCONNECT sent A->B in CONNECTED is valid and moves to DISCONNECTING;
\* in DISCONNECTING, DISCONNECT_OK sent B->A is valid and moves to INIT, and
\* every other message is invalid and moves to INIT too.
C6_DisconnectCycle ==
    \A v \in Variant :
        /\ (Returned(v) /\ prev[v] = CONNECTED /\ Is(A_TO_B, DISCONNECT)) => Valid(v, DISCONNECTING)
        /\ (Returned(v) /\ prev[v] = DISCONNECTING) =>
               IF Is(B_TO_A, DISCONNECT_OK) THEN Valid(v, INIT) ELSE Invalid(v, INIT)

\* C6 witness: DISCONNECT_OK sent B->A closed the session
C6_Witness ==
    \A v \in Variant : prev[v] = DISCONNECTING /\ Is(B_TO_A, DISCONNECT_OK) /\ Valid(v, INIT)

\* the direction the table requires in each phase
Required(p) == IF p \in {INIT, CONNECTED} THEN A_TO_B ELSE B_TO_A

\* C7: in every phase a message sent against the required direction is
\* invalid whatever its text, and outside INIT resets the phase to INIT; so
\* VERSION 3 sent A->B in WAITING_VER is invalid and resets to INIT.
C7_DirectionEnforced ==
    \A v \in Variant :
        (Returned(v) /\ msg.direction # Required(prev[v])) => Invalid(v, INIT)

Digits == {"0", "1", "2", "3", "4", "5", "6", "7", "8", "9"}

C9_EmptyVersionRejected ==
    \A v \in Variant :
        (Returned(v) /\ prev[v] = WAITING_VER /\ Is(B_TO_A, "VERSION ")) => Invalid(v, INIT)

\* text is the command c, a space, a token without spaces, a space and `rest`
Reply(text, c, rest) ==
    \E k \in (Len(c) + 2)..Len(text) :
        /\ StartsWith(text, c \o " ")
        /\ SubSeq(text, k, k) = " "
        /\ AllIn(SubSeq(text, Len(c) + 2, k - 1), Chars(ASCII32 \o ASCII97) \ {" "})
        /\ SubSeq(text, k + 1, Len(text)) = rest

\* the strings a reply can carry after its token
Rests(text) == {SubSeq(text, k, Len(text)) : k \in 1..(Len(text) + 1)}

\* C10: in WAITING_DATA a B->A reply is returned valid with the phase moved to
\* CONNECTED only if the text after the token is the command that starts the
\* text, to the last byte; GET_DATA a.1 GET_DATA is valid and moves to
\* CONNECTED, and a reply whose text after the token is another command, or
\* the command and more, is invalid and resets to INIT.
C10_EchoMustMatch ==
    \A v \in Variant :
        (Returned(v) /\ prev[v] = WAITING_DATA /\ msg.direction = B_TO_A) =>
            LET text == msg.text_message IN
            /\ Valid(v, CONNECTED) => \E c \in Commands : Reply(text, c, c)
            /\ text = "GET_DATA a.1 GET_DATA" => Valid(v, CONNECTED)
            /\ \A c \in Commands : \A rest \in Rests(text) \ {c} :
                   Reply(text, c, rest) => Invalid(v, INIT)

\* C10 witness: a reply that echoes another command was rejected
C10_Witness ==
    \A v \in Variant :
        prev[v] = WAITING_DATA /\ Is(B_TO_A, "GET_DATA a.1 GET_FILE") /\ Invalid(v, INIT)

\* C11: a reply accepted in WAITING_DATA echoes the command that was
\* requested: when the phase was entered by command C, a B->A reply of the
\* form C' token C' with C' another command is invalid and resets to INIT.
C11_EchoOfRequestedCommand ==
    \A v \in Variant :
        (Returned(v) /\ prev[v] = WAITING_DATA /\ msg.direction = B_TO_A) =>
            \A c \in Commands \ {cmd[v]} :
                Reply(msg.text_message, c, c) => Invalid(v, INIT)

\* C12: in WAITING_DATA the token is not empty: the B->A reply made of the
\* command, two spaces and the command again is invalid and resets to INIT.
C12_EmptyTokenRejected ==
    \A v \in Variant :
        (Returned(v) /\ prev[v] = WAITING_DATA /\ msg.direction = B_TO_A) =>
            \A c \in Commands : msg.text_message = c \o "  " \o c => Invalid(v, INIT)

\* the characters a data token may hold
TokenChars == Chars("abcdefghijklmnopqrstuvwxyz0123456789.")

\* text starts with a command and a space, and the token that follows (up to
\* the next space or the end) holds a character of `bad`
TokenHolds(text, bad) ==
    \E c \in Commands :
        /\ StartsWith(text, c \o " ")
        /\ \E k \in (Len(c) + 2)..Len(text) :
               /\ SubSeq(text, k, k) \in bad
               /\ AllIn(SubSeq(text, Len(c) + 2, k - 1), Chars(ASCII32 \o ASCII97) \ {" "})

\* C13: in WAITING_DATA a B->A reply whose token holds a character other than
\* a-z, 0-9 and '.', the characters ':' and ';' included, is invalid and
\* resets to INIT.
C13_TokenAlphabet ==
    \A v \in Variant :
        ( /\ Returned(v) /\ prev[v] = WAITING_DATA /\ msg.direction = B_TO_A
          /\ TokenHolds(msg.text_message, Chars(ASCII32 \o ASCII97) \ (TokenChars \cup {" "})) )
        => Invalid(v, INIT)

\* a B->A message B64:, one space and a token, validated in WAITING_B64_DATA
B64Reply(v) ==
    /\ Returned(v) /\ prev[v] = WAITING_B64_DATA /\ msg.direction = B_TO_A
    /\ StartsWith(msg.text_message, "B64: ")

\* the token of such a message
B64Token == SubSeq(msg.text_message, 6, Len(msg.text_message))

\* C14: in WAITING_B64_DATA a B->A message B64:, one space and a token is
\* valid (and moves to CONNECTED) only if the length of the token, padding
\* included, is a positive multiple of 4: QQ== and SGVsbG8= are valid, QQ= and
\* every token whose length is not a multiple of 4 are invalid and reset to
\* INIT.
C14_Base64Length ==
    \A v \in Variant :
        B64Reply(v) =>
            /\ status[v] = MESSAGE_VALID =>
                   Len(B64Token) > 0 /\ Len(B64Token) % 4 = 0 /\ state[v] = CONNECTED
            /\ B64Token \in {"QQ==", "SGVsbG8="} => Valid(v, CONNECTED)
            /\ (B64Token = "QQ=" \/ Len(B64Token) % 4 # 0) => Invalid(v, INIT)

\* C14 witness: the token SGVsbG8= of length 8 was accepted
C14_Witness ==
    \A v \in Variant : B64Reply(v) /\ B64Token = "SGVsbG8=" /\ Valid(v, CONNECTED)

B64Alphabet == Chars("ABCDEFGHIJKLMNOPQRSTUVWXYZabcdefghijklmnopqrstuvwxyz0123456789+/")

\* the last two characters x, y of a token are two of the alphabet, one of
\* the alphabet and =, or ==
PaddingOK(x, y) ==
    \/ x \in B64Alphabet /\ y \in B64Alphabet \cup {"="}
    \/ x = "=" /\ y = "="

\* C15: in WAITING_B64_DATA a token whose length is a positive multiple of 4
\* is accepted exactly when every character before the last two is of the
\* base64 alphabet, and = stands only in the last two positions, the last
\* being = when the one before it is; otherwise the message is invalid and
\* resets to INIT.
C15_Base64Padding ==
    \A v \in Variant :
        (B64Reply(v) /\ Len(B64Token) > 0 /\ Len(B64Token) % 4 = 0) =>
            LET n == Len(B64Token) IN
            IF /\ AllIn(SubSeq(B64Token, 1, n - 2), B64Alphabet)
               /\ PaddingOK(SubSeq(B64Token, n - 1, n - 1), SubSeq(B64Token, n, n))
            THEN Valid(v, CONNECTED)
            ELSE Invalid(v, INIT)

\* C15 witness: the token QQ=Q, padded before the last position, was rejected
C15_Witness ==
    \A v \in Variant : B64Reply(v) /\ B64Token = "QQ=Q" /\ Invalid(v, INIT)

\* C16: every call returns a verdict without reading a byte past the
\* terminator of the text; in WAITING_B64_DATA a B->A message B64: and a
\* space with an empty or one-character token is invalid and resets to INIT.
C16_NoReadPastTerminator ==
    \A v \in Variant :
        /\ ~over[v]
        /\ Returned(v) => status[v] \in {MESSAGE_VALID, MESSAGE_INVALID}
        /\ (B64Reply(v) /\ Len(B64Token) <= 1) => Invalid(v, INIT)

\* a new session can be opened in phase st of variant v: CONNECT (A->B) and
\* then CONNECT_OK (B->A) are both valid and the phase becomes CONNECTED
Reopens(v, st) ==
    \A mem \in Beyond :
        LET a == Run(v, st, Handshake[1], mem)
            b == Run(v, a.state, Handshake[2], mem)
        IN  /\ a.status = MESSAGE_VALID /\ a.state = CONNECTING
            /\ b.status = MESSAGE_VALID /\ b.state = CONNECTED

\* some message takes phase st of variant v to INIT in one call
CanReset(v, st) ==
    \E m \in RunMessages : \A mem \in Beyond : Run(v, st, m, mem).state = INIT

\* C17: the validator is reusable: after every invalid message and after
\* every DISCONNECT_OK accepted in DISCONNECTING the phase is INIT, in INIT
\* the exchange CONNECT, CONNECT_OK is valid again and reaches CONNECTED, and
\* from every reachable phase INIT can be reached.
C17_Reusable ==
    \A v \in Variant :
        /\ (Returned(v) /\ (status[v] = MESSAGE_INVALID
                            \/ (prev[v] = DISCONNECTING /\ status[v] = MESSAGE_VALID)))
               => state[v] = INIT
        /\ state[v] = INIT => Reopens(v, INIT)
        /\ CanReset(v, state[v])

\* C18: run side by side from INIT on the same messages, the two variants
\* return the same verdict and reach the same phase at every call, except
\* when the message is validated in WAITING_VER with direction A->B or is a
\* reply in WAITING_DATA whose token holds : or ;.
C18_VariantsAgree ==
    (\A v \in Variant : Returned(v)) =>
        \/ /\ status["splpv1"] = status["part_000"]
           /\ state["splpv1"] = state["part_000"]
        \/ \E v \in Variant : prev[v] = WAITING_VER /\ msg.direction = A_TO_B
        \/ \E v \in Variant :
               /\ prev[v] = WAITING_DATA /\ msg.direction = B_TO_A
               /\ TokenHolds(msg.text_message, {":", ";"})

\* C19: when the messages of independent sessions are interleaved, the
\* verdict for a message of a session is the verdict that session gets when
\* its messages are validated alone.
C19_SessionsIndependent ==
    \A v \in Variant : Returned(v) => status[v] = solo[v]

\* C20: the valid messages alternate in direction: the first valid message
\* after the phase was INIT has direction A->B, and every other valid message
\* has the direction opposite to that of the valid message before it.
C20_ValidDirectionsAlternate ==
    [][ \A v \in Variant :
            status'[v] = MESSAGE_VALID =>
                IF vdir[v] = NONE THEN msg'.direction = A_TO_B
                ELSE msg'.direction # vdir[v] ]_vars

Requests == {GET_VER, GET_DATA, GET_FILE, GET_COMMAND, GET_B64, DISCONNECT}

\* C21: no request is accepted outside an established connection: GET_VER,
\* GET_DATA, GET_FILE, GET_COMMAND, GET_B64 or DISCONNECT is valid only if,
\* since the phase last was INIT, CONNECT (A->B) and then CONNECT_OK (B->A)
\* were both valid; and a valid verdict leaves the phase at INIT only for
\* DISCONNECT_OK (B->A) validated in DISCONNECTING.
C21_RequestsNeedConnection ==
    [][ \A v \in Variant :
            status'[v] = MESSAGE_VALID =>
                /\ msg'.text_message \in Requests => conn[v] = 2
                /\ state'[v] = INIT =>
                       /\ state[v] = DISCONNECTING
                       /\ msg' = [direction |-> B_TO_A, text_message |-> DISCONNECT_OK] ]_vars

\* C21 witness: a request was accepted on an established connection
C21_Witness ==
    \A v \in Variant :
        /\ prev[v] = CONNECTED /\ conn[v] = 2
        /\ Is(A_TO_B, GET_VER) /\ Valid(v, WAITING_VER)

====
